---------------------------- MODULE Spec2Model ----------------------------
(***************************************************************************)
(* A model of scripts/generate_deployment_pdf.py: the Markdown line         *)
(* formatter (markdown_to_lines, wrap_text), the paginator (paginate), the  *)
(* PDF emitter (build_page_stream, generate_pdf) and the command line       *)
(* entry point (main).                                                      *)
(*                                                                          *)
(* Text is modelled as a sequence of character codes (Unicode code points), *)
(* bytes as a sequence of byte values, so that lengths, offsets, slicing,   *)
(* case conversion and escaping are computed as the program computes them.  *)
(***************************************************************************)
EXTENDS Integers, Sequences, FiniteSets, TLC

(***************************************************************************)
(* Program constants (module level of the script).                          *)
(***************************************************************************)
PAGE_WIDTH == 595
PAGE_HEIGHT == 842
MARGIN_LEFT == 50
MARGIN_TOP == 50
MARGIN_BOTTOM == 50
FONT_SIZE == 10
LINE_HEIGHT == 14
MAX_CHARS_PER_LINE == 94
LINES_PER_PAGE == (PAGE_HEIGHT - MARGIN_TOP - MARGIN_BOTTOM) \div LINE_HEIGHT

(***************************************************************************)
(* Character codes the program names in its literals.                       *)
(***************************************************************************)
TAB == 9
LF == 10
CR == 13
SP == 32
HASH == 35
LPAREN == 40
RPAREN == 41
STAR == 42
DASH == 45
DOT == 46
QMARK == 63
BSLASH == 92
BTICK == 96

(***************************************************************************)
(* Bounds of the model.                                                     *)
(***************************************************************************)
MaxDocLines == 2
MaxPages == 2
MaxPageLines == 1
MaxLines == 3
MaxLpp == 3
MaxArgc == 4

(***************************************************************************)
(* Character classes.                                                       *)
(***************************************************************************)
\* str.isspace(), which str.strip()/rstrip() and the regex class \s use:
\* the white space of the Latin-1 range (the model's texts hold no other).
IsSpace(c) == c \in {9, 10, 11, 12, 13, 28, 29, 30, 31, 32, 133, 160}

\* textwrap's own white space, '\t\n\x0b\x0c\r ', which splits the chunks.
IsWrapSpace(c) == c \in {9, 10, 11, 12, 13, 32}

\* the regex class \d, on the ASCII digits the model's texts hold.
IsDigit(c) == c \in 48..57

\* str.upper() on one character: the ASCII and Latin-1 lower case letters
\* that have a one-character upper case.
UpperChar(c) ==
    IF c \in 97..122 THEN c - 32
    ELSE IF c \in 224..254 /\ c # 247 THEN c - 32
    ELSE c

(***************************************************************************)
(* Strings.                                                                 *)
(***************************************************************************)
Rep(c, n) == [i \in 1..n |-> c]

\* ''.join(ss): the strings of ss one after the other (joined by halves,
\* which keeps the evaluation shallow).
RECURSIVE Flatten(_)
Flatten(ss) ==
    IF ss = <<>> THEN <<>>
    ELSE IF Len(ss) = 1 THEN ss[1]
    ELSE LET h == Len(ss) \div 2
         IN Flatten(SubSeq(ss, 1, h)) \o Flatten(SubSeq(ss, h + 1, Len(ss)))

\* the first index >= i of s whose character is not in the class In
\* (Len(s)+1 if there is none): where a greedy run that starts at i ends.
RunStop(s, i, In(_)) ==
    CHOOSE j \in i..(Len(s) + 1) :
        /\ j = Len(s) + 1 \/ ~In(s[j])
        /\ \A k \in i..(j - 1) : In(s[k])

\* the first index >= i of s that holds no white space (Len(s)+1 if none).
SkipSpace(s, i) == RunStop(s, i, IsSpace)

\* the length of s without its trailing white space.
RStripLen(s) ==
    CHOOSE n \in 0..Len(s) :
        /\ n = 0 \/ ~IsSpace(s[n])
        /\ \A k \in (n + 1)..Len(s) : IsSpace(s[k])

\* str.rstrip()
RStrip(s) == SubSeq(s, 1, RStripLen(s))

\* str.strip()
Strip(s) == LET r == RStrip(s) IN SubSeq(r, SkipSpace(r, 1), Len(r))

\* str.startswith(p)
StartsWith(s, p) == Len(s) >= Len(p) /\ SubSeq(s, 1, Len(p)) = p

\* str.upper()
Upper(s) == [i \in 1..Len(s) |-> UpperChar(s[i])]

\* chunk.strip() == '' of textwrap: the chunk holds white space only.
IsBlank(s) == \A i \in 1..Len(s) : IsSpace(s[i])

\* str.splitlines(): the lines of a text, cut at \n, \r and \r\n (and at
\* \v, \f, \x1c-\x1e, \x85), without a last empty line.
IsLineEnd(c) == c \in {10, 11, 12, 13, 28, 29, 30, 133}

NotLineEnd(c) == ~IsLineEnd(c)

\* the lines of s from index start on
RECURSIVE SplitFrom(_, _, _)
SplitFrom(s, start, acc) ==
    IF start > Len(s) THEN acc
    ELSE LET i == RunStop(s, start, NotLineEnd)
             next == IF i < Len(s) /\ s[i] = CR /\ s[i + 1] = LF
                     THEN i + 2 ELSE i + 1
         IN SplitFrom(s, next, Append(acc, SubSeq(s, start, i - 1)))

SplitLines(s) == SplitFrom(s, 1, <<>>)

(***************************************************************************)
(* textwrap.wrap as wrap_text calls it: expand_tabs (the default),          *)
(* replace_whitespace=False, drop_whitespace=True, break_long_words=True,   *)
(* break_on_hyphens=False.                                                  *)
(***************************************************************************)
\* str.expandtabs(8): a tab becomes the spaces up to the next multiple of 8
\* columns; \n and \r start a new line of columns.
MovesColumn(c) == c # TAB /\ c # LF /\ c # CR

\* s from index i on, expanded, with col columns before it on its line: the
\* characters up to the next tab or line end are copied as they are.
RECURSIVE ExpandFrom(_, _, _, _)
ExpandFrom(s, i, col, acc) ==
    IF i > Len(s) THEN acc
    ELSE LET t == RunStop(s, i, MovesColumn)
             c == col + (t - i)
             copied == acc \o SubSeq(s, i, t - 1)
         IN IF t > Len(s) THEN copied
            ELSE IF s[t] = TAB
                 THEN ExpandFrom(s, t + 1, c + (8 - (c % 8)),
                                 copied \o Rep(SP, 8 - (c % 8)))
                 ELSE ExpandFrom(s, t + 1, 0, Append(copied, s[t]))

ExpandTabs(s) == ExpandFrom(s, 1, 0, <<>>)

NotWrapSpace(c) == ~IsWrapSpace(c)

\* the end of the run of characters of one kind (white space or not) that
\* starts at i.
RunEnd(s, i, ws) ==
    IF ws THEN RunStop(s, i, IsWrapSpace) - 1 ELSE RunStop(s, i, NotWrapSpace) - 1

\* TextWrapper._split with wordsep_simple_re: the chunks of a text, each a
\* run of white space or a run of anything else.
RECURSIVE SplitChunks(_, _, _)
SplitChunks(s, i, acc) ==
    IF i > Len(s) THEN acc
    ELSE LET e == RunEnd(s, i, IsWrapSpace(s[i]))
         IN SplitChunks(s, e + 1, Append(acc, SubSeq(s, i, e)))

\* the inner loop of _wrap_chunks: chunks go to the current line while they
\* fit.
RECURSIVE Fill(_, _, _, _)
Fill(chunks, cur_line, cur_len, width) ==
    IF chunks # <<>> /\ cur_len + Len(Head(chunks)) <= width
    THEN Fill(Tail(chunks), Append(cur_line, Head(chunks)),
              cur_len + Len(Head(chunks)), width)
    ELSE [rest |-> chunks, cur_line |-> cur_line, cur_len |-> cur_len]

\* TextWrapper._handle_long_word with break_long_words: as much of the next
\* chunk as fits goes to the current line.
HandleLongWord(f, width) ==
    LET space_left == IF width < 1 THEN 1 ELSE width - f.cur_len
        chunk == Head(f.rest)
    IN [rest |-> <<SubSeq(chunk, space_left + 1, Len(chunk))>> \o Tail(f.rest),
        cur_line |-> Append(f.cur_line, SubSeq(chunk, 1, space_left)),
        cur_len |-> f.cur_len + space_left]

\* one line of _wrap_chunks: the chunks left and the lines so far, after the
\* body of the outer loop has run once.
WrapOneLine(chunks, lines, width) ==
    LET c1 == IF IsBlank(Head(chunks)) /\ lines # <<>> THEN Tail(chunks) ELSE chunks
        f1 == Fill(c1, <<>>, 0, width)
        f2 == IF f1.rest # <<>> /\ Len(Head(f1.rest)) > width
              THEN HandleLongWord(f1, width) ELSE f1
        n == Len(f2.cur_line)
        cur == IF n > 0 /\ IsBlank(f2.cur_line[n])
               THEN SubSeq(f2.cur_line, 1, n - 1) ELSE f2.cur_line
    IN [rest |-> f2.rest,
        lines |-> IF cur # <<>> THEN Append(lines, Flatten(cur)) ELSE lines]

\* TextWrapper._wrap_chunks, for a positive width.
RECURSIVE WrapChunks(_, _, _)
WrapChunks(chunks, lines, width) ==
    IF chunks = <<>> THEN lines
    ELSE LET r == WrapOneLine(chunks, lines, width)
         IN WrapChunks(r.rest, r.lines, width)

\* _wrap_chunks raises ValueError("invalid width") before it wraps anything.
WrapRaises(width) == width <= 0

\* textwrap.wrap(text, width=width, ...), for a width it does not refuse.
TextwrapWrap(text, width) ==
    WrapChunks(SplitChunks(ExpandTabs(text), 1, <<>>), <<>>, width)

\* wrap_text
wrap_text(text, width) ==
    LET wrapped == TextwrapWrap(text, width)
    IN IF wrapped # <<>> THEN wrapped ELSE << <<>> >>

(***************************************************************************)
(* markdown_to_lines: what one input line matches, and what it emits.       *)
(***************************************************************************)
\* the code fence marker, "```"
Fence == <<BTICK, BTICK, BTICK>>

\* a faulty variant of IsFence, which takes only a bare marker for a fence
IsFenceOnlyMarker(raw) == Strip(RStrip(raw)) = Fence

\* stripped.startswith("```")
IsFence(raw) == StartsWith(Strip(RStrip(raw)), Fence)

\* the number of '#' that start the line
IsHash(c) == c = HASH
HashRun(s) == RunStop(s, 1, IsHash) - 1

\* the first index >= i of s that holds no digit
SkipDigits(s, i) == RunStop(s, i, IsDigit)

\* re.match(r"^(#{1,6})\s+(.*)$", line)
HeadingMatch(line) ==
    LET n == HashRun(line)
    IN n >= 1 /\ n <= 6 /\ n < Len(line) /\ IsSpace(line[n + 1])

\* heading.group(2)
HeadingGroup2(line) ==
    SubSeq(line, SkipSpace(line, HashRun(line) + 1), Len(line))

\* re.match(r"^(\s*[-*])\s+(.*)$", line)
BulletMatch(line) ==
    LET k == SkipSpace(line, 1)
    IN k < Len(line) /\ line[k] \in {DASH, STAR} /\ IsSpace(line[k + 1])

\* bullet.group(2)
BulletGroup2(line) ==
    SubSeq(line, SkipSpace(line, SkipSpace(line, 1) + 1), Len(line))

\* the index of the '.' that ends the digits after the leading white space
NumberedDot(line) == SkipDigits(line, SkipSpace(line, 1))

\* re.match(r"^(\s*\d+\.)\s+(.*)$", line)
NumberedMatch(line) ==
    LET k == SkipSpace(line, 1)
        d == NumberedDot(line)
    IN d > k /\ d < Len(line) /\ line[d] = DOT /\ IsSpace(line[d + 1])

\* numbered.group(1)
NumberedGroup1(line) == SubSeq(line, 1, NumberedDot(line))

\* numbered.group(2)
NumberedGroup2(line) ==
    SubSeq(line, SkipSpace(line, NumberedDot(line) + 1), Len(line))

\* a faulty variant of NumberedPrefix, which leaves out the white space the
\* line starts with
NumberedPrefixNoIndent(line) ==
    Append(SubSeq(line, SkipSpace(line, 1), NumberedDot(line)), SP)

\* prefix = f"{numbered.group(1)} "
NumberedPrefix(line) == Append(NumberedGroup1(line), SP)

\* the width the body of a numbered item is wrapped at
NumberedWidth(line) == MAX_CHARS_PER_LINE - Len(NumberedPrefix(line))

\* a faulty variant of CodeLines, which wraps at the full width and so
\* leaves no room for the indent
CodeLinesFullWidth(line) ==
    LET w == wrap_text(line, MAX_CHARS_PER_LINE)
    IN [i \in 1..Len(w) |-> IF w[i] # <<>> THEN Rep(SP, 4) \o w[i] ELSE <<>>]

\* a faulty variant of CodeLines, which forgets the indent
CodeLinesNoIndent(line) == wrap_text(line, MAX_CHARS_PER_LINE - 4)

\* the Lines of a line inside a code block: wrapped at the width less 4, each
\* non-empty segment behind four spaces.
CodeLines(line) ==
    LET w == wrap_text(line, MAX_CHARS_PER_LINE - 4)
    IN [i \in 1..Len(w) |-> IF w[i] # <<>> THEN Rep(SP, 4) \o w[i] ELSE <<>>]

\* the Lines a heading adds to lines: a separator after a non-empty Line, the
\* upper-cased title wrapped, an empty Line.
HeadingLines(lines, line) ==
    LET title == Upper(Strip(HeadingGroup2(line)))
        sep == IF lines # <<>> /\ lines[Len(lines)] # <<>> THEN << <<>> >> ELSE <<>>
    IN sep \o wrap_text(title, MAX_CHARS_PER_LINE) \o << <<>> >>

\* the Lines of an item: the prefix before the first segment of the body,
\* as many spaces before the others.
ItemLines(prefix, body_lines) ==
    [index \in 1..Len(body_lines) |->
        (IF index = 1 THEN prefix ELSE Rep(SP, Len(prefix))) \o body_lines[index]]

\* the Lines of a bullet item
BulletLines(line) ==
    LET body == Strip(BulletGroup2(line))
        prefix == <<DASH, SP>>
    IN ItemLines(prefix, wrap_text(body, MAX_CHARS_PER_LINE - Len(prefix)))

\* the Lines of a numbered item (for a prefix that leaves a positive width)
NumberedLines(line) ==
    LET prefix == NumberedPrefix(line)
        body == Strip(NumberedGroup2(line))
    IN ItemLines(prefix, wrap_text(body, NumberedWidth(line)))

\* the Lines of any other line
ParagraphLines(stripped) == wrap_text(stripped, MAX_CHARS_PER_LINE)

\* while lines and lines[-1] == "": lines.pop()
RECURSIVE TrimTrailing(_)
TrimTrailing(ls) ==
    IF ls # <<>> /\ ls[Len(ls)] = <<>>
    THEN TrimTrailing(SubSeq(ls, 1, Len(ls) - 1)) ELSE ls

(***************************************************************************)
(* paginate                                                                 *)
(***************************************************************************)
\* range(0, n, step): Python refuses a step of 0, counts up for a positive
\* step and is empty for a negative one (n >= 0).
RangeRaises(step) == step = 0

RECURSIVE RangeFrom(_, _, _)
RangeFrom(i, n, step) ==
    IF step > 0 /\ i < n THEN <<i>> \o RangeFrom(i + step, n, step) ELSE <<>>

\* a faulty variant of Slice, which takes one Line too many
SliceOneMore(ls, index, stop) ==
    SubSeq(ls, index + 1, IF stop + 1 > Len(ls) THEN Len(ls) ELSE stop + 1)

\* lines[index : index + lines_per_page], for 0 <= index <= len(lines): a
\* negative stop counts from the end.
Slice(ls, index, stop) ==
    LET n == Len(ls)
        e == IF stop < 0 THEN (IF stop + n < 0 THEN 0 ELSE stop + n)
             ELSE IF stop > n THEN n ELSE stop
    IN SubSeq(ls, index + 1, e)

\* a faulty variant of paginate, without the page for no Lines at all
paginateNoEmptyPage(ls, per_page) ==
    LET starts == RangeFrom(0, Len(ls), per_page)
    IN [k \in 1..Len(starts) |-> SubSeq(ls, starts[k] + 1, starts[k] + per_page)]

\* paginate, when range() does not raise
paginate(ls, per_page) ==
    IF ls = <<>> THEN << << <<>> >> >>
    ELSE LET starts == RangeFrom(0, Len(ls), per_page)
         IN [k \in 1..Len(starts) |-> Slice(ls, starts[k], starts[k] + per_page)]

\* paginate raises ValueError when range() is given a step of 0
PaginateRaises(ls, per_page) == ls # <<>> /\ RangeRaises(per_page)

(***************************************************************************)
(* Numbers and bytes.                                                       *)
(***************************************************************************)
\* str(n) for n >= 0: the decimal digits of n
RECURSIVE Dec(_)
Dec(n) == IF n < 10 THEN <<48 + n>> ELSE Append(Dec(n \div 10), 48 + (n % 10))

\* f"{n:010d}": the digits of n behind the zeros that fill ten columns
Pad10(n) == LET d == Dec(n) IN Rep(48, IF Len(d) < 10 THEN 10 - Len(d) ELSE 0) \o d

\* str.replace(c, r) for a one-character c
Replace(s, c, r) == Flatten([i \in 1..Len(s) |-> IF s[i] = c THEN r ELSE <<s[i]>>])

\* sep.join(ss)
Join(ss, sep) ==
    Flatten([i \in 1..Len(ss) |-> IF i = 1 THEN ss[i] ELSE sep \o ss[i]])

\* str.encode("latin-1") raises UnicodeEncodeError on a character above 255
EncodeRaises(s) == \E i \in 1..Len(s) : s[i] > 255

\* str.encode("latin-1") of a text of characters up to 255: one byte each,
\* the character's code
EncodeLatin1(s) == [i \in 1..Len(s) |-> s[i]]

\* to_latin1: encode with errors="replace" puts "?" for a character above
\* 255, and the bytes are decoded back
to_latin1(value) == [i \in 1..Len(value) |-> IF value[i] > 255 THEN QMARK ELSE value[i]]

\* pdf_escape: the three replacements, in the program's order
pdf_escape(text) ==
    Replace(Replace(Replace(text, BSLASH, <<BSLASH, BSLASH>>),
                    LPAREN, <<BSLASH, LPAREN>>),
            RPAREN, <<BSLASH, RPAREN>>)

(***************************************************************************)
(* build_page_stream                                                        *)
(***************************************************************************)
\* the two commands of one Line: "(<safe>) Tj" and "T*"
LineCommands(line) ==
    << <<LPAREN>> \o pdf_escape(to_latin1(line)) \o <<41, 32, 84, 106>>,   \* ") Tj"
       <<84, 42>> >>                                            \* "T*"

\* the commands of a page, before they are joined
PageCommands(page_lines) ==
    << <<66, 84>>,                                                 \* "BT"
       <<47, 70, 49, 32>> \o Dec(FONT_SIZE) \o <<32, 84, 102>>,                       \* "/F1 <size> Tf"
       <<49, 32, 48, 32, 48, 32, 49, 32>> \o Dec(MARGIN_LEFT) \o <<SP>>
           \o Dec(PAGE_HEIGHT - MARGIN_TOP) \o <<32, 84, 109>>,        \* "1 0 0 1 <x> <y> Tm"
       Dec(LINE_HEIGHT) \o <<32, 84, 76>> >>                           \* "<leading> TL"
    \o Flatten([i \in 1..Len(page_lines) |-> LineCommands(page_lines[i])])
    \o << <<69, 84>> >>                                            \* "ET"

\* the text of the content stream: the commands, "\n" between and after them
PageStreamText(page_lines) == Join(PageCommands(page_lines), <<LF>>) \o <<LF>>

build_page_stream(page_lines) == EncodeLatin1(PageStreamText(page_lines))

(***************************************************************************)
(* generate_pdf: the bodies of the objects and the parts of the file.       *)
(***************************************************************************)
\* objects[3]: "<< /Type /Font /Subtype /Type1 /BaseFont /Helvetica >>"
FontObject ==
    <<60, 60, 32, 47, 84, 121, 112, 101, 32, 47, 70, 111, 110, 116, 32, 47,
      83, 117, 98, 116, 121, 112, 101, 32, 47, 84, 121, 112, 101, 49, 32,
      47, 66, 97, 115, 101, 70, 111, 110, 116, 32, 47, 72, 101, 108, 118,
      101, 116, 105, 99, 97, 32, 62, 62>>

\* objects[content_id]: "<< /Length <n> >>\nstream\n" + stream + "endstream"
ContentObject(stream) ==
    <<60, 60, 32, 47, 76, 101, 110, 103, 116, 104, 32>>
    \o Dec(Len(stream))
    \o <<32, 62, 62, 10, 115, 116, 114, 101, 97, 109, 10>>
    \o stream
    \o <<101, 110, 100, 115, 116, 114, 101, 97, 109>>

\* objects[page_id]: "<< /Type /Page /Parent 2 0 R /MediaBox [0 0 <w> <h>]
\* /Resources << /Font << /F1 3 0 R >> >> /Contents <content_id> 0 R >>"
PageObject(content_id) ==
    <<60, 60, 32, 47, 84, 121, 112, 101, 32, 47, 80, 97, 103, 101, 32, 47,
      80, 97, 114, 101, 110, 116, 32, 50, 32, 48, 32, 82, 32, 47, 77, 101,
      100, 105, 97, 66, 111, 120, 32, 91, 48, 32, 48, 32>>
    \o Dec(PAGE_WIDTH) \o <<SP>> \o Dec(PAGE_HEIGHT)
    \o <<93, 32, 47, 82, 101, 115, 111, 117, 114, 99, 101, 115, 32, 60, 60, 32,
      47, 70, 111, 110, 116, 32, 60, 60, 32, 47, 70, 49, 32, 51, 32, 48, 32,
      82, 32, 62, 62, 32, 62, 62, 32, 47, 67, 111, 110, 116, 101, 110, 116,
      115, 32>>
    \o Dec(content_id)
    \o <<32, 48, 32, 82, 32, 62, 62>>

\* kids: "<id> 0 R" for each page, a space between
Kids(ids) == Join([i \in 1..Len(ids) |-> Dec(ids[i]) \o <<32, 48, 32, 82>>], <<SP>>)

\* objects[2]: "<< /Type /Pages /Kids [ <kids> ] /Count <n> >>"
PagesObject(ids) ==
    <<60, 60, 32, 47, 84, 121, 112, 101, 32, 47, 80, 97, 103, 101, 115, 32,
      47, 75, 105, 100, 115, 32, 91, 32>>
    \o Kids(ids)
    \o <<32, 93, 32, 47, 67, 111, 117, 110, 116, 32>>
    \o Dec(Len(ids))
    \o <<32, 62, 62>>

\* objects[1]: "<< /Type /Catalog /Pages 2 0 R >>"
CatalogObject ==
    <<60, 60, 32, 47, 84, 121, 112, 101, 32, 47, 67, 97, 116, 97, 108, 111,
      103, 32, 47, 80, 97, 103, 101, 115, 32, 50, 32, 48, 32, 82, 32, 62, 62>>

\* "%PDF-1.4\n%\xe2\xe3\xcf\xd3\n"
Header ==
    <<37, 80, 68, 70, 45, 49, 46, 52, 10, 37, 226, 227, 207, 211, 10>>

\* "<id> 0 obj\n" + body + "\nendobj\n"
ObjectBytes(object_id, body) ==
    Dec(object_id) \o <<32, 48, 32, 111, 98, 106, 10>>
    \o body
    \o <<10, 101, 110, 100, 111, 98, 106, 10>>

\* "xref\n0 <size>\n" and the entry of object 0, "0000000000 65535 f \n"
XrefHead(size) ==
    <<120, 114, 101, 102, 10, 48, 32>> \o Dec(size) \o <<LF>>
    \o <<48, 48, 48, 48, 48, 48, 48, 48, 48, 48, 32, 54, 53, 53, 51, 53, 32,
      102, 32, 10>>

\* "<offset:010d> 00000 n \n"
XrefEntry(offset) ==
    Pad10(offset) \o <<32, 48, 48, 48, 48, 48, 32, 110, 32, 10>>

\* "trailer\n<< /Size <size> /Root 1 0 R >>\nstartxref\n<offset>\n%%EOF\n"
Trailer(size, offset) ==
    <<116, 114, 97, 105, 108, 101, 114, 10, 60, 60, 32, 47, 83, 105, 122,
      101, 32>>
    \o Dec(size)
    \o <<32, 47, 82, 111, 111, 116, 32, 49, 32, 48, 32, 82, 32, 62, 62, 10,
      115, 116, 97, 114, 116, 120, 114, 101, 102, 10>>
    \o Dec(offset)
    \o <<10, 37, 37, 69, 79, 70, 10>>

(***************************************************************************)
(* The inputs the model draws from.                                         *)
(***************************************************************************)
\* n lower case letters c: a word
Word(c, n) == Rep(c, n)

\* input lines for the formatter: every pattern of the formatter's table, the
\* near misses of each, and bodies and prefixes long enough to wrap.
FormatSamples ==
    { <<>>,                                          \* ""
      <<SP, SP, SP>>,                                \* "   "
      Fence,                                         \* "```"
      <<SP, SP, BTICK, BTICK, BTICK, SP>>,           \* "  ``` "
      Fence \o <<112, 121>>,                         \* "```py"
      <<120, SP>> \o Fence,                          \* "x ```"
      <<HASH, SP, 65, 98, SP, 99>>,                  \* "# Ab c"
      Rep(HASH, 6) \o <<SP>> \o Word(97, 60) \o <<SP>> \o Word(98, 60),
      Rep(HASH, 7) \o <<SP, 120>>,                   \* "####### x"
      <<HASH, 120>>,                                 \* "#x"
      <<DASH, SP, 97, 98>>,                          \* "- ab"
      <<SP, SP, STAR, SP>> \o Word(97, 50) \o <<SP>> \o Word(98, 50)
          \o <<SP, SP>> \o Word(99, 93),
      <<49, 50, DOT, SP, 97, 98, SP, 99, 100>>,      \* "12. ab cd"
      <<SP, SP, 55, DOT, SP, SP>> \o Word(97, 50) \o <<SP>> \o Word(98, 50)
          \o <<SP>> \o Word(99, 3),
      <<TAB, 51, DOT, SP>> \o Word(97, 100),         \* "\t3. aaa..."
      Rep(SP, 2) \o Rep(49, 89) \o <<DOT, SP, 120, 121, SP, 122>>,
      Rep(SP, 2) \o Rep(49, 90) \o <<DOT, SP, 120>>,
      Rep(SP, 4) \o Rep(49, 90) \o <<DOT, SP, 120>>,
      <<49, DOT, 120>>,                              \* "1.x"
      Word(97, 100),
      <<97, TAB, 98>>,                               \* "a\tb"
      Rep(SP, 4) \o Word(97, 88) \o <<SP>> \o Word(98, 5) \o <<SP, SP>> }

\* the text of a file that holds these lines, each ended by "\n"
RECURSIVE JoinLines(_)
JoinLines(ls) ==
    IF ls = <<>> THEN <<>> ELSE Head(ls) \o <<LF>> \o JoinLines(Tail(ls))

SeqsUpTo(S, n) == UNION {[1..k -> S] : k \in 0..n}

FormatDocs == {JoinLines(d) : d \in SeqsUpTo(FormatSamples, MaxDocLines)}

\* the files main is run on: the empty file, blank and fence lines only, one
\* of each kind of line, a numbered item whose prefix leaves no width, and
\* "\r\n" line ends.
MainDocs ==
    { <<>>,
      <<LF, LF>>,
      Fence \o <<LF>>,
      <<HASH, SP, 97, LF, DASH, SP, 40, 98, LF>>,
      <<97, 98, SP, 99, LF>>,
      <<49, DOT, SP, 97, CR, LF>> \o Fence \o <<CR, LF, 120, SP, 8364>>,
      Rep(49, 93) \o <<DOT, SP, 120, LF>> }

\* the Lines the paginator and the emitter are given
LineSamples == { <<>>, <<97>>, <<40, 8364, 92>> }

VARIABLES
    argc,           \* len(sys.argv)
    exists,         \* input_path.exists()
    input_text,     \* the text the input file holds
    pc,             \* where the program is
    markdown,       \* main's and markdown_to_lines' markdown
    raws,           \* markdown.splitlines()
    idx,            \* the number of input lines the loop has processed
    in_code_block,
    lines,
    lines_per_page,
    pages,
    objects,        \* generate_pdf's objects: object id -> body
    page_ids,
    max_object_id,
    page_no,        \* the number of pages the loop of generate_pdf has done
    output,
    offsets,
    object_id,      \* the loop variable of the two loops over the object ids
    emitted,        \* the object ids serialized so far, in the order written
    xref_offset,
    writes,         \* the number of times the output path was written to
    file,           \* what the output path holds: "none", "partial", "complete"
    stdout,         \* what main has printed
    exit_status,    \* 0 or 1 once the program has ended, -1 before
    err             \* the exception that ended the program, "" if none

fmt_vars == <<markdown, raws, idx, in_code_block, lines>>
pdf_vars == <<objects, page_ids, max_object_id, page_no, output, offsets,
              object_id, emitted, xref_offset>>
env_vars == <<argc, exists, input_text, lines_per_page>>
end_vars == <<stdout, exit_status, err>>
out_vars == <<writes, file>>

vars == <<argc, exists, input_text, pc, markdown, raws, idx, in_code_block,
          lines, lines_per_page, pages, objects, page_ids, max_object_id,
          page_no, output, offsets, object_id, emitted, xref_offset, writes,
          file, stdout, exit_status, err>>

\* the locals of the functions before they run, and nothing printed, written
\* or raised yet
FreshFormat ==
    /\ raws = <<>>
    /\ idx = 0
    /\ in_code_block = FALSE
    /\ lines = <<>>

FreshPdf ==
    /\ objects = <<>>
    /\ page_ids = <<>>
    /\ max_object_id = 0
    /\ page_no = 0
    /\ output = <<>>
    /\ offsets = <<>>
    /\ object_id = 0
    /\ emitted = <<>>
    /\ xref_offset = 0

FreshEnd ==
    /\ writes = 0
    /\ file = "none"
    /\ stdout = <<>>
    /\ exit_status = -1
    /\ err = ""

\* an exception nothing catches ends the program with status 1
Raise(e) ==
    /\ pc' = "raised"
    /\ err' = e
    /\ exit_status' = 1
    /\ UNCHANGED stdout

(***************************************************************************)
(* markdown_to_lines, one action for each way an input line is handled.     *)
(***************************************************************************)
FormatBegin ==
    /\ pc = "format"
    /\ lines' = <<>>
    /\ in_code_block' = FALSE
    /\ raws' = SplitLines(markdown)
    /\ idx' = 0
    /\ pc' = "format_loop"
    /\ UNCHANGED <<markdown, pages, env_vars, pdf_vars, out_vars, end_vars>>

\* the line the loop is at, and the loop going on to the next one
AtLine == pc = "format_loop" /\ idx < Len(raws)
Line == RStrip(raws[idx + 1])
Stripped == Strip(Line)
Continue ==
    /\ idx' = idx + 1
    /\ UNCHANGED <<pc, markdown, raws, pages, env_vars, pdf_vars, out_vars,
                   end_vars>>

FenceLine ==
    /\ AtLine
    /\ IsFence(raws[idx + 1])
    /\ in_code_block' = ~in_code_block
    /\ lines' = Append(lines, <<>>)
    /\ Continue

CodeLine ==
    /\ AtLine
    /\ ~IsFence(raws[idx + 1])
    /\ in_code_block
    /\ lines' = lines \o CodeLines(Line)
    /\ UNCHANGED in_code_block
    /\ Continue

\* none of the two above: the line is outside a code block
Outside == AtLine /\ ~IsFence(raws[idx + 1]) /\ ~in_code_block

BlankLine ==
    /\ Outside
    /\ Stripped = <<>>
    /\ lines' = Append(lines, <<>>)
    /\ UNCHANGED in_code_block
    /\ Continue

HeadingLine ==
    /\ Outside
    /\ Stripped # <<>>
    /\ HeadingMatch(Line)
    /\ lines' = lines \o HeadingLines(lines, Line)
    /\ UNCHANGED in_code_block
    /\ Continue

BulletLine ==
    /\ Outside
    /\ Stripped # <<>>
    /\ ~HeadingMatch(Line)
    /\ BulletMatch(Line)
    /\ lines' = lines \o BulletLines(Line)
    /\ UNCHANGED in_code_block
    /\ Continue

\* a numbered item
IsNumbered ==
    /\ Outside
    /\ Stripped # <<>>
    /\ ~HeadingMatch(Line)
    /\ ~BulletMatch(Line)
    /\ NumberedMatch(Line)

NumberedLine ==
    /\ IsNumbered
    /\ ~WrapRaises(NumberedWidth(Line))
    /\ lines' = lines \o NumberedLines(Line)
    /\ UNCHANGED in_code_block
    /\ Continue

\* a numbered item whose prefix leaves no width: textwrap raises ValueError,
\* which nothing catches.
NumberedRaise ==
    /\ IsNumbered
    /\ WrapRaises(NumberedWidth(Line))
    /\ Raise("ValueError")
    /\ UNCHANGED <<fmt_vars, pages, env_vars, pdf_vars, out_vars>>

ParagraphLine ==
    /\ Outside
    /\ Stripped # <<>>
    /\ ~HeadingMatch(Line)
    /\ ~BulletMatch(Line)
    /\ ~NumberedMatch(Line)
    /\ lines' = lines \o ParagraphLines(Stripped)
    /\ UNCHANGED in_code_block
    /\ Continue

\* the end of the loop: the trailing empty Lines go, the Lines are returned
FormatEnd ==
    /\ pc = "format_loop"
    /\ idx = Len(raws)
    /\ lines' = TrimTrailing(lines)
    /\ pc' = "paginate"
    /\ UNCHANGED <<markdown, raws, idx, in_code_block, pages, env_vars,
                   pdf_vars, out_vars, end_vars>>

NextFormat ==
    \/ FormatBegin
    \/ FenceLine
    \/ CodeLine
    \/ BlankLine
    \/ HeadingLine
    \/ BulletLine
    \/ NumberedLine
    \/ NumberedRaise
    \/ ParagraphLine
    \/ FormatEnd

(***************************************************************************)
(* paginate                                                                 *)
(***************************************************************************)
Paginate ==
    /\ pc = "paginate"
    /\ IF PaginateRaises(lines, lines_per_page)
       THEN /\ Raise("ValueError")
            /\ UNCHANGED pages
       ELSE /\ pages' = paginate(lines, lines_per_page)
            /\ pc' = "generate"
            /\ UNCHANGED end_vars
    /\ UNCHANGED <<fmt_vars, env_vars, pdf_vars, out_vars>>

(***************************************************************************)
(* generate_pdf                                                             *)
(***************************************************************************)
PdfBegin ==
    /\ pc = "generate"
    /\ objects' = (3 :> FontObject)
    /\ page_ids' = <<>>
    /\ max_object_id' = 3
    /\ page_no' = 0
    /\ pc' = "pdf_pages"
    /\ UNCHANGED <<fmt_vars, pages, env_vars, output, offsets, object_id,
                   emitted, xref_offset, out_vars, end_vars>>

\* a faulty variant of PdfPage, which numbers the content stream before its
\* page
PdfPageContentFirst ==
    /\ pc = "pdf_pages"
    /\ page_no < Len(pages)
    /\ LET page == pages[page_no + 1]
           content_id == max_object_id + 1
           page_id == max_object_id + 2
       IN /\ objects' = (page_id :> PageObject(content_id))
                          @@ (content_id :> ContentObject(build_page_stream(page)))
                          @@ objects
          /\ page_ids' = Append(page_ids, page_id)
          /\ max_object_id' = page_id
          /\ page_no' = page_no + 1
          /\ UNCHANGED <<pc, end_vars>>
    /\ UNCHANGED <<fmt_vars, pages, env_vars, output, offsets, object_id,
                   emitted, xref_offset, out_vars>>

\* the body of the loop over the pages
PdfPage ==
    /\ pc = "pdf_pages"
    /\ page_no < Len(pages)
    /\ LET page == pages[page_no + 1]
           page_id == max_object_id + 1
           content_id == max_object_id + 2
       IN IF EncodeRaises(PageStreamText(page))
          THEN /\ Raise("UnicodeEncodeError")
               /\ UNCHANGED <<objects, page_ids, max_object_id, page_no>>
          ELSE /\ objects' = (page_id :> PageObject(content_id))
                               @@ (content_id :> ContentObject(build_page_stream(page)))
                               @@ objects
               /\ page_ids' = Append(page_ids, page_id)
               /\ max_object_id' = content_id
               /\ page_no' = page_no + 1
               /\ UNCHANGED <<pc, end_vars>>
    /\ UNCHANGED <<fmt_vars, pages, env_vars, output, offsets, object_id,
                   emitted, xref_offset, out_vars>>

\* after the loop: the page tree and the catalog, the header of the file,
\* and the offsets list
PdfTree ==
    /\ pc = "pdf_pages"
    /\ page_no = Len(pages)
    /\ objects' = (1 :> CatalogObject) @@ (2 :> PagesObject(page_ids)) @@ objects
    /\ output' = Header
    /\ offsets' = [i \in 0..max_object_id |-> 0]
    /\ object_id' = 1
    /\ pc' = "pdf_objects"
    /\ UNCHANGED <<fmt_vars, pages, env_vars, page_ids, max_object_id, page_no,
                   emitted, xref_offset, out_vars, end_vars>>

\* a faulty variant of PdfObject, which takes the offset after it has
\* written "<id> 0 obj\n"
PdfObjectLateOffset ==
    /\ pc = "pdf_objects"
    /\ object_id <= max_object_id
    /\ object_id \in DOMAIN objects
    /\ output' = output \o ObjectBytes(object_id, objects[object_id])
    /\ offsets' = [offsets EXCEPT
                     ![object_id] = Len(output) + Len(Dec(object_id)) + 7]
    /\ emitted' = Append(emitted, object_id)
    /\ object_id' = object_id + 1
    /\ UNCHANGED <<pc, end_vars>>
    /\ UNCHANGED <<fmt_vars, pages, env_vars, objects, page_ids, max_object_id,
                   page_no, xref_offset, out_vars>>

\* the body of the loop that serializes the objects
PdfObject ==
    /\ pc = "pdf_objects"
    /\ object_id <= max_object_id
    /\ IF object_id \in DOMAIN objects
       THEN /\ offsets' = [offsets EXCEPT ![object_id] = Len(output)]
            /\ output' = output \o ObjectBytes(object_id, objects[object_id])
            /\ emitted' = Append(emitted, object_id)
            /\ object_id' = object_id + 1
            /\ UNCHANGED <<pc, end_vars>>
       ELSE /\ Raise("KeyError")
            /\ UNCHANGED <<offsets, output, emitted, object_id>>
    /\ UNCHANGED <<fmt_vars, pages, env_vars, objects, page_ids, max_object_id,
                   page_no, xref_offset, out_vars>>

\* after that loop: where the table starts, its head and the entry of 0
PdfXref ==
    /\ pc = "pdf_objects"
    /\ object_id = max_object_id + 1
    /\ xref_offset' = Len(output)
    /\ output' = output \o XrefHead(max_object_id + 1)
    /\ object_id' = 1
    /\ pc' = "pdf_xref"
    /\ UNCHANGED <<fmt_vars, pages, env_vars, objects, page_ids, max_object_id,
                   page_no, offsets, emitted, out_vars, end_vars>>

\* the body of the loop that writes the table
PdfXrefEntry ==
    /\ pc = "pdf_xref"
    /\ object_id <= max_object_id
    /\ output' = output \o XrefEntry(offsets[object_id])
    /\ object_id' = object_id + 1
    /\ UNCHANGED <<pc, fmt_vars, pages, env_vars, objects, page_ids,
                   max_object_id, page_no, offsets, emitted, xref_offset,
                   out_vars, end_vars>>

PdfTrailer ==
    /\ pc = "pdf_xref"
    /\ object_id = max_object_id + 1
    /\ output' = output \o Trailer(max_object_id + 1, xref_offset)
    /\ pc' = "pdf_write"
    /\ UNCHANGED <<fmt_vars, pages, env_vars, objects, page_ids, max_object_id,
                   page_no, offsets, object_id, emitted, xref_offset, out_vars,
                   end_vars>>

\* output_path.write_bytes(output) writes the file
PdfWrite ==
    /\ pc = "pdf_write"
    /\ writes' = writes + 1
    /\ file' = "complete"
    /\ pc' = "print"
    /\ UNCHANGED <<fmt_vars, pages, env_vars, pdf_vars, end_vars>>

\* or the file system refuses: OSError, which nothing catches
PdfWriteFail ==
    /\ pc = "pdf_write"
    /\ writes' = writes + 1
    /\ file' \in {"none", "partial"}
    /\ Raise("OSError")
    /\ UNCHANGED <<fmt_vars, pages, env_vars, pdf_vars>>

NextPdf ==
    \/ PdfBegin
    \/ PdfPage
    \/ PdfTree
    \/ PdfObject
    \/ PdfXref
    \/ PdfXrefEntry
    \/ PdfTrailer
    \/ PdfWrite
    \/ PdfWriteFail

(***************************************************************************)
(* main                                                                     *)
(***************************************************************************)
\* what open() in text mode makes of the line ends of a file: "\r\n" and
\* "\r" are read as "\n"
UniversalNewlines(s) ==
    LET keep == [i \in 1..Len(s) |->
                    IF s[i] = LF /\ i > 1 /\ s[i - 1] = CR THEN <<>>
                    ELSE IF s[i] = CR THEN <<LF>> ELSE <<s[i]>>]
    IN Flatten(keep)

MainUsage ==
    /\ pc = "main"
    /\ argc # 3
    /\ stdout' = Append(stdout, "usage")
    /\ exit_status' = 1
    /\ pc' = "exit"
    /\ UNCHANGED <<fmt_vars, pages, env_vars, pdf_vars, out_vars, err>>

\* a faulty variant of MainNotFound, which prints the message and goes on
MainNotFoundGoesOn ==
    /\ pc = "main"
    /\ argc = 3
    /\ ~exists
    /\ stdout' = Append(stdout, "not found")
    /\ markdown' = UniversalNewlines(input_text)
    /\ pc' = "format"
    /\ UNCHANGED <<raws, idx, in_code_block, lines, pages, env_vars, pdf_vars,
                   out_vars, exit_status, err>>

MainNotFound ==
    /\ pc = "main"
    /\ argc = 3
    /\ ~exists
    /\ stdout' = Append(stdout, "not found")
    /\ exit_status' = 1
    /\ pc' = "exit"
    /\ UNCHANGED <<fmt_vars, pages, env_vars, pdf_vars, out_vars, err>>

\* input_path.read_text(encoding="utf-8"), then markdown_to_lines is called
MainRead ==
    /\ pc = "main"
    /\ argc = 3
    /\ exists
    /\ markdown' = UniversalNewlines(input_text)
    /\ pc' = "format"
    /\ UNCHANGED <<raws, idx, in_code_block, lines, pages, env_vars, pdf_vars,
                   out_vars, end_vars>>

\* or the read fails (a directory, no permission, bytes that are no UTF-8):
\* OSError or UnicodeDecodeError, which nothing catches
MainReadFail ==
    /\ pc = "main"
    /\ argc = 3
    /\ exists
    /\ \E e \in {"OSError", "UnicodeDecodeError"} : Raise(e)
    /\ UNCHANGED <<fmt_vars, pages, env_vars, pdf_vars, out_vars>>

\* after generate_pdf has returned
MainPrint ==
    /\ pc = "print"
    /\ stdout' = Append(stdout, "generated")
    /\ exit_status' = 0
    /\ pc' = "exit"
    /\ UNCHANGED <<fmt_vars, pages, env_vars, pdf_vars, out_vars, err>>

NextMain ==
    \/ MainUsage
    \/ MainNotFound
    \/ MainRead
    \/ MainReadFail
    \/ MainPrint

(***************************************************************************)
(* The program: main on any command line and any input file.                *)
(***************************************************************************)
Init ==
    /\ argc \in 1..MaxArgc
    /\ exists \in BOOLEAN
    /\ input_text \in (IF argc = 3 /\ exists THEN MainDocs ELSE {<<>>})
    /\ lines_per_page = LINES_PER_PAGE
    /\ pc = "main"
    /\ markdown = <<>>
    /\ pages = <<>>
    /\ FreshFormat
    /\ FreshPdf
    /\ FreshEnd

Next == NextMain \/ NextFormat \/ Paginate \/ NextPdf

Spec == Init /\ [][Next]_vars

(***************************************************************************)
(* markdown_to_lines on any text, then paginate as main calls it.           *)
(***************************************************************************)
InitFormat ==
    /\ argc = 3
    /\ exists = TRUE
    /\ input_text \in FormatDocs
    /\ markdown = input_text
    /\ lines_per_page = LINES_PER_PAGE
    /\ pc = "format"
    /\ pages = <<>>
    /\ FreshFormat
    /\ FreshPdf
    /\ FreshEnd

NextLines == NextFormat \/ Paginate

SpecFormat == InitFormat /\ [][NextLines]_vars

(***************************************************************************)
(* paginate on any Lines and any lines_per_page.                            *)
(***************************************************************************)
InitPaginate ==
    /\ argc = 3
    /\ exists = TRUE
    /\ input_text = <<>>
    /\ markdown = <<>>
    /\ raws = <<>>
    /\ idx = 0
    /\ in_code_block = FALSE
    /\ lines \in SeqsUpTo(LineSamples, MaxLines)
    /\ lines_per_page \in (0 - MaxLpp)..MaxLpp
    /\ pc = "paginate"
    /\ pages = <<>>
    /\ FreshPdf
    /\ FreshEnd

NextPaginate == Paginate

SpecPaginate == InitPaginate /\ [][NextPaginate]_vars

(***************************************************************************)
(* generate_pdf on any sequence of pages.                                   *)
(***************************************************************************)
PageSamples == SeqsUpTo(LineSamples, MaxPageLines) \ {<<>>}

InitPdf ==
    /\ argc = 3
    /\ exists = TRUE
    /\ input_text = <<>>
    /\ markdown = <<>>
    /\ lines_per_page = LINES_PER_PAGE
    /\ pages \in SeqsUpTo(PageSamples, MaxPages)
    /\ pc = "generate"
    /\ FreshFormat
    /\ FreshPdf
    /\ FreshEnd

SpecPdf == InitPdf /\ [][NextPdf]_vars
(***************************************************************************)
(* What the claims need beside the program: the Lines a step of the         *)
(* formatter has added, a text without its white space, the ends of a byte  *)
(* string.                                                                  *)
(***************************************************************************)
\* the loop of the formatter has just handled the input line raws[idx + 1]
HandledLine == pc = "format_loop" /\ idx < Len(raws) /\ idx' = idx + 1

\* the Lines the step has added, when it has only added Lines
Added == SubSeq(lines', Len(lines) + 1, Len(lines'))
OnlyAdded == Len(lines') >= Len(lines) /\ SubSeq(lines', 1, Len(lines)) = lines

\* the stripped line starts with three backticks
FenceLike(raw) == LET t == Strip(raw) IN Len(t) >= 3 /\ \A i \in 1..3 : t[i] = BTICK

\* the stripped line is three backticks and nothing else
OnlyMarker(raw) == Strip(raw) = <<BTICK, BTICK, BTICK>>

IsInk(c) == ~IsSpace(c)
Ink(s) == SelectSeq(s, IsInk)

EndsWith(s, t) == Len(s) >= Len(t) /\ SubSeq(s, Len(s) - Len(t) + 1, Len(s)) = t

\* the value of a string of decimal digits
RECURSIVE ParseDec(_)
ParseDec(ds) ==
    IF ds = <<>> THEN 0
    ELSE 10 * ParseDec(SubSeq(ds, 1, Len(ds) - 1)) + (ds[Len(ds)] - 48)

(***************************************************************************)
(* C1                                                                       *)
(***************************************************************************)
\* C1: every Line markdown_to_lines has emitted, of whatever kind (heading,
\* bullet, numbered item with a prefix of any length, code line with its
\* indent, paragraph), is at most MAX_CHARS_PER_LINE characters long.
C1_LineWidth == \A i \in 1..Len(lines) : Len(lines[i]) <= MAX_CHARS_PER_LINE

\* a numbered item whose prefix of 93 characters leaves a width of 1 has
\* been formatted: three Lines, each exactly as long as the maximum.
C1_Witness ==
    /\ pc = "paginate"
    /\ Len(raws) = 1
    /\ NumberedMatch(RStrip(raws[1]))
    /\ NumberedWidth(RStrip(raws[1])) = 1
    /\ Len(lines) = 3
    /\ \A i \in 1..3 : Len(lines[i]) = MAX_CHARS_PER_LINE

(***************************************************************************)
(* C4                                                                       *)
(***************************************************************************)
\* C4: for non-empty Lines and a positive lines_per_page, paginate returns
\* chunks that, one after the other, are the input; every chunk holds at
\* least one and at most lines_per_page Lines, and every chunk but the last
\* holds exactly lines_per_page.
C4_Chunks ==
    (pc = "generate" /\ lines # <<>> /\ lines_per_page > 0) =>
        /\ Flatten(pages) = lines
        /\ \A k \in 1..Len(pages) :
              Len(pages[k]) >= 1 /\ Len(pages[k]) <= lines_per_page
        /\ \A k \in 1..(Len(pages) - 1) : Len(pages[k]) = lines_per_page

\* three Lines at two a page: a full page and a shorter last one
C4_Witness ==
    /\ pc = "generate"
    /\ Len(lines) = 3
    /\ lines_per_page = 2
    /\ Len(pages) = 2
    /\ Len(pages[1]) = 2
    /\ Len(pages[2]) = 1

(***************************************************************************)
(* C9                                                                       *)
(***************************************************************************)
\* C9: paginate with a lines_per_page of zero or less fails for every Line
\* sequence: it never returns a page list.
C9_NonPositiveFails ==
    (lines_per_page <= 0 /\ pc # "paginate") => (pc = "raised" /\ pages = <<>>)

(***************************************************************************)
(* C6                                                                       *)
(***************************************************************************)
\* C6, as claimed: an input line toggles the code-block state exactly when
\* it holds only the fence marker (white space around it aside); such a line
\* emits one blank Line and nothing else; no other line changes the state.
C6_OnlyMarkerToggles ==
    [][HandledLine =>
          /\ (in_code_block' # in_code_block) <=> OnlyMarker(raws[idx + 1])
          /\ OnlyMarker(raws[idx + 1]) => lines' = Append(lines, <<>>)]_vars

\* C6, amended: an input line toggles the code-block state exactly when its
\* stripped text starts with three backticks, whatever follows them; such a
\* line emits one blank Line and none of its text; no other line changes
\* the state.
C6_FencePrefixToggles ==
    [][HandledLine =>
          /\ (in_code_block' # in_code_block) <=> FenceLike(raws[idx + 1])
          /\ FenceLike(raws[idx + 1]) => lines' = Append(lines, <<>>)]_vars

\* a line with text after the three backticks has opened a code block
C6_Witness ==
    /\ pc = "format_loop"
    /\ idx = 1
    /\ FenceLike(raws[1])
    /\ ~OnlyMarker(raws[1])
    /\ in_code_block
    /\ lines = << <<>> >>

(***************************************************************************)
(* C7                                                                       *)
(***************************************************************************)
\* the loop is at a numbered item outside a code block
AtNumbered ==
    /\ pc = "format_loop"
    /\ idx < Len(raws)
    /\ ~in_code_block
    /\ NumberedMatch(RStrip(raws[idx + 1]))

\* the number and the dot as written, and one space: "12. "
LiteralNumber(line) ==
    Append(SubSeq(line, SkipSpace(line, 1), NumberedDot(line)), SP)

\* the same behind the white space the line starts with, as written
IndentedNumber(line) == Append(SubSeq(line, 1, NumberedDot(line)), SP)

\* the text of the item after the dot
ItemText(line) == SubSeq(line, NumberedDot(line) + 1, Len(line))

\* the step has emitted the item with prefix P: the first Line starts with
\* P, every other Line with exactly Len(P) spaces, the body of each Line is
\* at most MAX_CHARS_PER_LINE - Len(P) long and only as many Lines are used
\* as that width asks for, and the bodies hold the text of the item.
ItemShape(P, text) ==
    /\ idx' = idx + 1
    /\ OnlyAdded
    /\ Added # <<>>
    /\ StartsWith(Added[1], P)
    /\ \A i \in 2..Len(Added) :
          /\ StartsWith(Added[i], Rep(SP, Len(P)))
          /\ Len(Added[i]) > Len(P)
          /\ Added[i][Len(P) + 1] # SP
    /\ \A i \in 1..Len(Added) : Len(Added[i]) - Len(P) <= MAX_CHARS_PER_LINE - Len(P)
    /\ Len(Added) > 1 => Len(Strip(text)) > MAX_CHARS_PER_LINE - Len(P)
    /\ Ink(Flatten([i \in 1..Len(Added) |->
                       SubSeq(Added[i], Len(P) + 1, Len(Added[i]))])) = Ink(text)

\* C7, as claimed: for every numbered item outside a code block the first
\* emitted Line starts with the literal number, the dot and one space, every
\* continuation Line starts with as many spaces as that prefix is long, and
\* the body is wrapped at the maximum width less the length of that prefix.
C7_LiteralPrefix ==
    [][AtNumbered =>
          LET line == RStrip(raws[idx + 1])
          IN ItemShape(LiteralNumber(line), ItemText(line))]_vars

\* C7, amended: the prefix is the white space the line starts with, as
\* written, then the number, the dot and one space. When that prefix is
\* shorter than the maximum width the item is emitted as claimed, with that
\* prefix; when it is not, the wrap width is not positive, markdown_to_lines
\* raises ValueError and no Line is emitted for the item.
C7_IndentedPrefix ==
    [][AtNumbered =>
          LET line == RStrip(raws[idx + 1])
              P == IndentedNumber(line)
          IN IF Len(P) < MAX_CHARS_PER_LINE
             THEN ItemShape(P, ItemText(line))
             ELSE pc' = "raised" /\ err' = "ValueError" /\ lines' = lines]_vars

\* an indented numbered item, "  7.  ...", has been wrapped onto two Lines:
\* the first starts with "  7. ", the second with five spaces
C7_Witness ==
    /\ pc = "format_loop"
    /\ idx = 1
    /\ ~in_code_block
    /\ NumberedMatch(RStrip(raws[1]))
    /\ SkipSpace(raws[1], 1) = 3
    /\ Len(lines) = 2
    /\ StartsWith(lines[1], <<SP, SP, 55, DOT, SP, 97>>)
    /\ StartsWith(lines[2], <<SP, SP, SP, SP, SP, 98>>)

(***************************************************************************)
(* C10                                                                      *)
(***************************************************************************)
\* the code-block state is the parity of the fence lines handled so far
\* (a fence line: one the formatter takes for a fence, its stripped text
\* starting with three backticks)
C10_Parity ==
    in_code_block = (Cardinality({k \in 1..idx : FenceLike(raws[k])}) % 2 = 1)

\* a line that is no fence, handled inside a code block, leaves the state as
\* it is and adds only Lines that are empty or four spaces and a piece of
\* the line; the pieces hold the text of the line as written
C10_CodeLineStep ==
    (HandledLine /\ in_code_block /\ ~FenceLike(raws[idx + 1])) =>
        /\ in_code_block'
        /\ OnlyAdded
        /\ \A i \in 1..Len(Added) :
              \/ Added[i] = <<>>
              \/ /\ Len(Added[i]) > 4
                 /\ SubSeq(Added[i], 1, 4) = <<SP, SP, SP, SP>>
        /\ Ink(Flatten([i \in 1..Len(Added) |-> Added[i]])) = Ink(raws[idx + 1])

\* the end of the document inside a code block: nothing is raised and no
\* Line is added, the trailing empty Lines go as always
C10_UnclosedEnd ==
    (pc = "format_loop" /\ idx = Len(raws) /\ in_code_block /\ pc' # pc) =>
        /\ pc' = "paginate"
        /\ err' = ""
        /\ exit_status' = -1
        /\ \E n \in 0..Len(lines) : lines' = SubSeq(lines, 1, n)

\* C10: after any number of input lines the code-block state is the parity
\* of the fence lines among them; a line that is no fence is, inside a code
\* block, emitted as Lines that are empty or four spaces and the wrapped text
\* of the line as written (no upper case, no bullet or number prefix, also
\* for a line that looks like a heading or an item); a fence left open at
\* the end of the document raises nothing and adds no Line.
C10_CodeBlockState ==
    /\ []C10_Parity
    /\ [][C10_CodeLineStep /\ C10_UnclosedEnd]_vars

\* a document of a fence and a line that looks like a heading has ended
\* inside the code block: the heading is there as written, behind 4 spaces
C10_Witness ==
    /\ pc = "paginate"
    /\ in_code_block
    /\ Len(raws) = 2
    /\ HeadingMatch(raws[2])
    /\ err = ""
    /\ lines = << <<>>, <<SP, SP, SP, SP>> \o raws[2] >>

(***************************************************************************)
(* C5                                                                       *)
(***************************************************************************)
\* a line that emits at most empty Lines outside and inside a code block
BlankOrFence(raw) == Strip(raw) = <<>> \/ FenceLike(raw)

\* C5: once markdown_to_lines and paginate have run, the page list is not
\* empty; for the empty document, for a document of blank and fence lines
\* only, and whenever the formatted Lines are empty, it is exactly one page
\* that holds exactly one empty Line.
C5_NeverNoPage ==
    (pc = "generate") =>
        /\ pages # <<>>
        /\ \A k \in 1..Len(pages) : pages[k] # <<>>
        /\ (lines = <<>>) => (pages = << << <<>> >> >>)
        /\ (\A k \in 1..Len(raws) : BlankOrFence(raws[k])) =>
              (lines = <<>> /\ pages = << << <<>> >> >>)

\* a document of one fence line has been formatted and paginated: one page
\* of one empty Line
C5_Witness ==
    /\ pc = "generate"
    /\ Len(raws) = 1
    /\ FenceLike(raws[1])
    /\ lines = <<>>
    /\ pages = << << <<>> >> >>

(***************************************************************************)
(* C8                                                                       *)
(***************************************************************************)
\* C8: with an argument count other than two (len(sys.argv) # 3), or with an
\* input path that does not exist, main prints its message and ends with
\* status 1 and the output path is never written to; the output path is
\* written to at most once, only after formatting and pagination are done
\* and the whole file is built, and when it has been written main ends with
\* status 0.
C8_WriteOnlyOnSuccess ==
    /\ (argc # 3 \/ ~exists) =>
          /\ pc \in {"main", "exit"}
          /\ writes = 0
          /\ file = "none"
          /\ pc = "exit" =>
                /\ exit_status = 1
                /\ stdout = <<IF argc # 3 THEN "usage" ELSE "not found">>
    /\ writes <= 1
    /\ writes = 1 =>
          /\ pc \in {"print", "exit", "raised"}
          /\ argc = 3 /\ exists
          /\ idx = Len(raws)
          /\ lines = TrimTrailing(lines)
          /\ pages # <<>>
          /\ Flatten(pages) = (IF lines = <<>> THEN << <<>> >> ELSE lines)
          /\ EndsWith(output, <<37, 37, 69, 79, 70, 10>>)        \* "%%EOF\n"
    /\ file # "none" => writes = 1
    /\ (pc = "exit" /\ file = "complete") => exit_status = 0
    /\ exit_status = 0 => (pc = "exit" /\ file = "complete" /\ writes = 1)

\* main has ended on a missing input file: message, status 1, no write
C8_Witness ==
    /\ pc = "exit"
    /\ argc = 3
    /\ ~exists
    /\ exit_status = 1
    /\ stdout = <<"not found">>
    /\ writes = 0

(***************************************************************************)
(* C2                                                                       *)
(***************************************************************************)
\* the file is built
Built == pc \in {"pdf_write", "print"}

\* the number after "startxref\n" at the end of the file
StartXref(out) ==
    LET e == Len(out) - 7
        b == CHOOSE b \in 2..e :
                /\ out[b - 1] = LF
                /\ \A k \in b..e : IsDigit(out[k])
    IN ParseDec(SubSeq(out, b, e))

\* where the entry of object id starts in the table that starts at x, and
\* the offset the entry records
XrefEntryAt(out, x, size, id) == x + 7 + Len(Dec(size)) + 1 + 20 * id
XrefOffset(out, x, size, id) ==
    LET a == XrefEntryAt(out, x, size, id) IN ParseDec(SubSeq(out, a + 1, a + 10))

\* "<id> 0 obj"
ObjTag(id) == Dec(id) \o <<32, 48, 32, 111, 98, 106>>

\* the number of places of out where t starts
Occurrences(out, t) ==
    Cardinality({i \in 1..(Len(out) - Len(t) + 1) :
                    SubSeq(out, i, i + Len(t) - 1) = t})

\* C2: in the file generate_pdf builds, every object id from 1 to the
\* greatest is serialized once, in ascending order; the offset the
\* cross-reference table records for an id is where "<id> 0 obj" starts in
\* the file; the number after startxref is where "xref" starts.
C2_XrefOffsets ==
    Built =>
        LET x == StartXref(output)
            size == max_object_id + 1
        IN /\ EndsWith(output, <<10, 37, 37, 69, 79, 70, 10>>)   \* "\n%%EOF\n"
           /\ SubSeq(output, x + 1, x + 7)
                 = <<120, 114, 101, 102, 10, 48, 32>>            \* "xref\n0 "
           /\ emitted = [i \in 1..max_object_id |-> i]
           /\ \A id \in 1..max_object_id :
                 LET off == XrefOffset(output, x, size, id)
                 IN /\ SubSeq(output, off + 1, off + Len(ObjTag(id))) = ObjTag(id)
                    /\ output[off] = LF
                    /\ Occurrences(output, <<LF>> \o ObjTag(id) \o <<LF>>) = 1

\* the file of two pages is built: seven objects
C2_Witness ==
    /\ pc = "print"
    /\ file = "complete"
    /\ Len(pages) = 2
    /\ max_object_id = 7
    /\ emitted = <<1, 2, 3, 4, 5, 6, 7>>

(***************************************************************************)
(* C3                                                                       *)
(***************************************************************************)
\* the objects are all there
TreeBuilt == pc \in {"pdf_objects", "pdf_xref", "pdf_write", "print"}

\* "<< /Type /Pages /Kids [ <4 0 R 6 0 R ...> ] /Count <p> >>"
ExpectedPagesObject(p) ==
    <<60, 60, 32, 47, 84, 121, 112, 101, 32, 47, 80, 97, 103, 101, 115, 32,
      47, 75, 105, 100, 115, 32, 91, 32>>
    \o Join([k \in 1..p |-> Dec(2 * k + 2) \o <<32, 48, 32, 82>>], <<32>>)
    \o <<32, 93, 32, 47, 67, 111, 117, 110, 116, 32>>
    \o Dec(p)
    \o <<32, 62, 62>>

\* "trailer\n<< /Size <n> /Root 1 0 R >>\nstartxref\n"
ExpectedTrailerHead(n) ==
    <<116, 114, 97, 105, 108, 101, 114, 10, 60, 60, 32, 47, 83, 105, 122,
      101, 32>>
    \o Dec(n)
    \o <<32, 47, 82, 111, 111, 116, 32, 49, 32, 48, 32, 82, 32, 62, 62, 10,
         115, 116, 97, 114, 116, 120, 114, 101, 102, 10>>

\* what C3 says of the objects: for p pages the k-th page (k from 0) is
\* object 4+2k and its content stream object 5+2k; /Contents of a page
\* object is its own id plus one; /Kids of the Pages object lists the p page
\* ids in page order and /Count is p.
C3_Objects ==
    LET p == Len(pages) IN
    /\ \A k \in 1..Len(page_ids) : page_ids[k] = 2 * k + 2
    /\ TreeBuilt =>
          /\ Len(page_ids) = p
          /\ DOMAIN objects = 1..(2 * p + 3)
          /\ \A k \in 1..p :
                /\ StartsWith(objects[2 * k + 2],
                      <<60, 60, 32, 47, 84, 121, 112, 101, 32, 47, 80, 97,
                        103, 101, 32>>)                      \* "<< /Type /Page "
                /\ EndsWith(objects[2 * k + 2],
                      <<32, 47, 67, 111, 110, 116, 101, 110, 116, 115, 32>>
                      \o Dec(2 * k + 3)
                      \o <<32, 48, 32, 82, 32, 62, 62>>)     \* " /Contents <id+1> 0 R >>"
                /\ StartsWith(objects[2 * k + 3],
                      <<60, 60, 32, 47, 76, 101, 110, 103, 116, 104, 32>>)
                /\ EndsWith(objects[2 * k + 3],
                      build_page_stream(pages[k])
                      \o <<101, 110, 100, 115, 116, 114, 101, 97, 109>>)
          /\ objects[2] = ExpectedPagesObject(p)

\* /Size of the trailer of the built file is n
TrailerSize(n) ==
    Built =>
        EndsWith(output, ExpectedTrailerHead(n) \o Dec(xref_offset)
                         \o <<10, 37, 37, 69, 79, 70, 10>>)

\* C3, as claimed: the objects are numbered as said above, and /Size of the
\* trailer is 2p+3.
C3_SizeTwoPPlusThree == C3_Objects /\ TrailerSize(2 * Len(pages) + 3)

\* C3, amended: the objects are numbered as said above, and /Size of the
\* trailer is 2p+4: the greatest object id, 2p+3, plus one for the entry of
\* object 0.
C3_SizeTwoPPlusFour == C3_Objects /\ TrailerSize(2 * Len(pages) + 4)

\* the file of two pages is built: pages 4 and 6, streams 5 and 7
C3_Witness ==
    /\ pc = "print"
    /\ Len(pages) = 2
    /\ page_ids = <<4, 6>>
    /\ DOMAIN objects = 1..7
=============================================================================
